---- MODULE Spec2Model ----
(***************************************************************************)
(* Model of scripts/index-vault.py: a keyword index over the markdown      *)
(* files of a vault, persisted as JSON, with a miss log.                   *)
(*                                                                         *)
(* Strings whose characters matter (document bytes, summaries, keywords,   *)
(* queries) are sequences of one-character strings; "LF" and "CR" stand    *)
(* for the line feed and the carriage return.  Paths are opaque strings.   *)
(* A persisted file is modelled by what json.load makes of it.             *)
(***************************************************************************)
EXTENDS Integers, Sequences, FiniteSets, TLC

\* ------------------------------------------------------------------------
\* Bounds of the model
\* ------------------------------------------------------------------------

\* Size of the digest space (the 16 hex digits of the source, scaled down).
HashSpace == 7

\* Longest miss log the model lets cmd_miss build.
MaxLog == 2

\* ------------------------------------------------------------------------
\* Small universes the inputs are drawn from
\* ------------------------------------------------------------------------

\* Paths under memory/ ending in .md, in lexicographic order.
VaultPaths == <<"memory/a.md", "memory/b.md">>

\* A file outside the vault: update accepts it, vault_files never lists it.
OutsidePath == "notes/x.txt"

Paths == {VaultPaths[i] : i \in DOMAIN VaultPaths} \cup {OutsidePath}

\* Document bytes: "x\n", "y\n" and "x\r\n".
BytesXLF == <<"x", "LF">>
BytesYLF == <<"y", "LF">>
BytesXCRLF == <<"x", "CR", "LF">>

Contents == {BytesXLF, BytesYLF, BytesXCRLF}

NoFile == [exists |-> FALSE, data |-> <<>>]

FileOf(bytes) == [exists |-> TRUE, data |-> bytes]

\* ------------------------------------------------------------------------
\* Text helpers
\* ------------------------------------------------------------------------

ToSet(s) == {s[i] : i \in DOMAIN s}

IsSpace(c) == c \in {" ", "LF", "CR"}

\* str.lower on one character of the model's alphabet.
LowerChar(c) ==
  CASE c = "A" -> "a"
    [] c = "B" -> "b"
    [] c = "C" -> "c"
    [] OTHER -> c

\* str.lower
Lower(s) == [i \in DOMAIN s |-> LowerChar(s[i])]

\* str.split() without arguments: the maximal runs of non-whitespace.
RECURSIVE SplitFrom(_, _, _)
SplitFrom(s, i, cur) ==
  IF i > Len(s)
  THEN (IF cur = <<>> THEN <<>> ELSE <<cur>>)
  ELSE IF IsSpace(s[i])
       THEN (IF cur = <<>> THEN SplitFrom(s, i + 1, <<>>)
                           ELSE <<cur>> \o SplitFrom(s, i + 1, <<>>))
       ELSE SplitFrom(s, i + 1, Append(cur, s[i]))

Split(s) == SplitFrom(s, 1, <<>>)

\* f.read() of a file opened in text mode: universal newlines turn "\r\n"
\* and a lone "\r" into "\n".
RECURSIVE ReadFrom(_, _)
ReadFrom(b, i) ==
  IF i > Len(b) THEN <<>>
  ELSE IF b[i] = "CR"
       THEN (IF i < Len(b) /\ b[i + 1] = "LF"
             THEN <<"LF">> \o ReadFrom(b, i + 2)
             ELSE <<"LF">> \o ReadFrom(b, i + 1))
       ELSE <<b[i]>> \o ReadFrom(b, i + 1)

ReadText(b) == ReadFrom(b, 1)

CharCode(c) ==
  CASE c = "x" -> 1
    [] c = "y" -> 2
    [] c = "LF" -> 3
    [] c = "CR" -> 4
    [] OTHER -> 5

RECURSIVE CodeFrom(_, _)
CodeFrom(t, i) ==
  IF i > Len(t) THEN 0 ELSE CharCode(t[i]) * i + CodeFrom(t, i + 1)

\* sha256(text)[:16]: a fixed function of the text into a finite digest
\* space, hence not injective.
content_hash(text) == CodeFrom(text, 1) % HashSpace

\* ------------------------------------------------------------------------
\* State
\* ------------------------------------------------------------------------

VARIABLES
  disk,        \* path -> the file at that path, or NoFile
  indexFile,   \* what memory/meta/semantic-index.json holds
  missFile,    \* what memory/meta/miss-log.json holds
  op,          \* the last command run, its arguments and how it ended
  out,         \* what the last command returned or printed
  indexedAs,   \* history: path -> bytes the file had at its last update
  running      \* invocation -> where it stands between its load and its save

vars == <<disk, indexFile, missFile, op, out, indexedAs, running>>

\* ------------------------------------------------------------------------
\* Ordered mappings (a Python dict keeps insertion order, json keeps it too)
\* ------------------------------------------------------------------------

KeysOf(entries) == {entries[i].key : i \in DOMAIN entries}

HasKey(entries, k) == \E i \in DOMAIN entries : entries[i].key = k

PosOf(entries, k) == CHOOSE i \in DOMAIN entries : entries[i].key = k

\* dict.get(k) for a key that is present
Get(entries, k) == entries[PosOf(entries, k)].val

\* d[k] = v: an existing key keeps its position, a new one goes last.
Put(entries, k, v) ==
  IF HasKey(entries, k)
  THEN [entries EXCEPT ![PosOf(entries, k)] = [key |-> k, val |-> v]]
  ELSE Append(entries, [key |-> k, val |-> v])

\* ------------------------------------------------------------------------
\* Index Store
\* ------------------------------------------------------------------------

\* What a store file can hold, as json.load sees it:
\*   "absent"     no file                       (FileNotFoundError)
\*   "garbage"    not JSON                      (JSONDecodeError)
\*   "nondict"    JSON that is not an object, such as []
\*   "noentries"  a JSON object without "entries", such as {}
\*   "index"      {"version": .., "entries": {..}}
\*   "log"        a JSON list of miss records   (miss log only)
Blank(kind) == [kind |-> kind, version |-> 0, entries |-> <<>>]

MalformedKinds == {"garbage", "nondict", "noentries"}

EmptyIndex == [kind |-> "index", version |-> 1, entries |-> <<>>]

load_index(file) ==
  IF file.kind \in {"absent", "garbage"} THEN EmptyIndex ELSE file

\* json.dump of the whole index over the file
save_index(index) == index

\* index['entries'] evaluates without raising
HasEntries(index) == index.kind = "index"

\* Mutant: the files come as glob gives them, here last path first.
vault_files_Unsorted ==
  LET found == SelectSeq(VaultPaths, LAMBDA p : disk[p].exists)
  IN [i \in DOMAIN found |-> found[Len(found) + 1 - i]]

vault_files ==
  SelectSeq(VaultPaths, LAMBDA p : disk[p].exists)

\* ------------------------------------------------------------------------
\* Commands
\* ------------------------------------------------------------------------

Ran(name, args, status) ==
  [name |-> name, args |-> args, status |-> status, again |-> FALSE]

NoOutput == [none |-> TRUE]

LiveHash(p) == content_hash(ReadText(disk[p].data))

\* Mutant: any entry counts as up to date, the hash is not compared.
UpToDate_AnyEntry(index, fpath, h) == HasKey(index.entries, fpath)

\* The test of the scan loop: the file is skipped when the index has an
\* entry for it whose content_hash is the hash just computed.
UpToDate(index, fpath, h) ==
  /\ HasKey(index.entries, fpath)
  /\ Get(index.entries, fpath).content_hash = h

\* Mutant: the scan writes the index it loaded back to the store.
cmd_scan_Saves ==
  LET index == load_index(indexFile)
      files == vault_files
      raises == files # <<>> /\ ~HasEntries(index)
      needs == IF raises THEN <<>>
               ELSE SelectSeq(files, LAMBDA p : ~UpToDate(index, p, LiveHash(p)))
  IN /\ op' = Ran("scan", <<>>, IF raises THEN "crash" ELSE "ok")
     /\ out' = [needs_indexing |-> needs,
                hashes |-> [i \in DOMAIN needs |-> LiveHash(needs[i])]]
     /\ indexFile' = IF raises THEN indexFile ELSE save_index(index)
     /\ UNCHANGED <<disk, missFile, indexedAs, running>>

cmd_scan ==
  LET index == load_index(indexFile)
      files == vault_files
      raises == files # <<>> /\ ~HasEntries(index)
      needs == IF raises THEN <<>>
               ELSE SelectSeq(files, LAMBDA p : ~UpToDate(index, p, LiveHash(p)))
  IN /\ op' = Ran("scan", <<>>, IF raises THEN "crash" ELSE "ok")
     /\ out' = [needs_indexing |-> needs,
                hashes |-> [i \in DOMAIN needs |-> LiveHash(needs[i])]]
     /\ UNCHANGED <<disk, indexFile, missFile, indexedAs, running>>

cmd_file(fpath) ==
  /\ IF disk[fpath].exists
     THEN /\ op' = Ran("file", <<fpath>>, "ok")
          /\ out' = [text |-> ReadText(disk[fpath].data), hash |-> LiveHash(fpath)]
     ELSE /\ op' = Ran("file", <<fpath>>, "notfound")
          /\ out' = NoOutput
  /\ UNCHANGED <<disk, indexFile, missFile, indexedAs, running>>

\* related or []: the argument is <<>> when omitted, <<list>> when given.
RelatedOrEmpty(related) == IF related = <<>> THEN <<>> ELSE related[1]

\* Mutant: an entry that exists keeps its content_hash.
SetEntry_KeepHash(index, fpath, text, summary, keywords, related) ==
  [index EXCEPT !.entries =
     Put(@, fpath, [source_path |-> fpath,
                    content_hash |-> IF HasKey(@, fpath)
                                     THEN Get(@, fpath).content_hash
                                     ELSE content_hash(text),
                    summary |-> summary,
                    keywords |-> keywords,
                    related |-> RelatedOrEmpty(related)])]

\* Mutant: an omitted related keeps the related of the entry that exists.
SetEntry_MergeRelated(index, fpath, text, summary, keywords, related) ==
  [index EXCEPT !.entries =
     Put(@, fpath, [source_path |-> fpath,
                    content_hash |-> content_hash(text),
                    summary |-> summary,
                    keywords |-> keywords,
                    related |-> IF related = <<>> /\ HasKey(@, fpath)
                                THEN Get(@, fpath).related
                                ELSE RelatedOrEmpty(related)])]

\* Mutant: source_path is taken from the first entry of the index.
SetEntry_FirstPath(index, fpath, text, summary, keywords, related) ==
  [index EXCEPT !.entries =
     Put(@, fpath, [source_path |-> IF @ = <<>> THEN fpath ELSE @[1].key,
                    content_hash |-> content_hash(text),
                    summary |-> summary,
                    keywords |-> keywords,
                    related |-> RelatedOrEmpty(related)])]

\* Mutant: the entry is put into an index of the version this program writes.
SetEntry_OwnVersion(index, fpath, text, summary, keywords, related) ==
  [EmptyIndex EXCEPT !.entries =
     Put(index.entries, fpath, [source_path |-> fpath,
                                content_hash |-> content_hash(text),
                                summary |-> summary,
                                keywords |-> keywords,
                                related |-> RelatedOrEmpty(related)])]

\* Mutant: the keywords are added to those of the entry that exists.
SetEntry_AddKeywords(index, fpath, text, summary, keywords, related) ==
  [index EXCEPT !.entries =
     Put(@, fpath, [source_path |-> fpath,
                    content_hash |-> content_hash(text),
                    summary |-> summary,
                    keywords |-> IF HasKey(@, fpath)
                                 THEN Get(@, fpath).keywords \o keywords
                                 ELSE keywords,
                    related |-> RelatedOrEmpty(related)])]

\* index['entries'][fpath] = {...}
SetEntry(index, fpath, text, summary, keywords, related) ==
  [index EXCEPT !.entries =
     Put(@, fpath, [source_path |-> fpath,
                    content_hash |-> content_hash(text),
                    summary |-> summary,
                    keywords |-> keywords,
                    related |-> RelatedOrEmpty(related)])]

\* The three ways cmd_update ends.
UpdateNotFound(args) ==
  /\ op' = Ran("update", args, "notfound")
  /\ out' = NoOutput
  /\ UNCHANGED <<disk, indexFile, missFile, indexedAs, running>>

UpdateRaises(args) ==
  /\ op' = Ran("update", args, "crash")
  /\ out' = NoOutput
  /\ UNCHANGED <<disk, indexFile, missFile, indexedAs, running>>

UpdateSaves(args, index) ==
  /\ indexFile' = save_index(index)
  /\ op' = [Ran("update", args, "ok") EXCEPT
              !.again = (op.name = "update" /\ op.status = "ok" /\ op.args = args)]
  /\ out' = [indexed |-> args[1], keyword_count |-> Len(args[3])]
  /\ indexedAs' = [indexedAs EXCEPT ![args[1]] = disk[args[1]]]
  /\ UNCHANGED <<disk, missFile, running>>

\* Mutant: the index is loaded and saved before the file is looked for.
cmd_update_SavesFirst(fpath, summary, keywords, related) ==
  LET args == <<fpath, summary, keywords, related>>
      index == load_index(indexFile)
      text == ReadText(disk[fpath].data)
  IN IF ~HasEntries(index) THEN UpdateRaises(args)
     ELSE IF ~disk[fpath].exists
     THEN /\ indexFile' = save_index(index)
          /\ op' = Ran("update", args, "notfound")
          /\ out' = NoOutput
          /\ UNCHANGED <<disk, missFile, indexedAs, running>>
     ELSE UpdateSaves(args, SetEntry(index, fpath, text, summary, keywords, related))

cmd_update(fpath, summary, keywords, related) ==
  LET args == <<fpath, summary, keywords, related>>
      index == load_index(indexFile)
      text == ReadText(disk[fpath].data)
  IN IF ~disk[fpath].exists THEN UpdateNotFound(args)
     ELSE IF ~HasEntries(index) THEN UpdateRaises(args)
     ELSE UpdateSaves(args, SetEntry(index, fpath, text, summary, keywords, related))

\* --- search ---------------------------------------------------------------

\* results[:10] of cmd_search and the default top_n of cmd_search_json
DefaultTopN == 10

Min(a, b) == IF a < b THEN a ELSE b

\* set(query.lower().split())
QueryTerms(query) == ToSet(Split(Lower(query)))

\* set(k.lower() for k in entry.get('keywords', []))
EntryTerms(entry) == {Lower(entry.keywords[i]) : i \in DOMAIN entry.keywords}

\* set(entry.get('summary', '').lower().split())
SummaryTerms(entry) == ToSet(Split(Lower(entry.summary)))

\* Mutant: every keyword of the list that matches counts, not every term.
Score2_CountsKeywordList(query_terms, entry) ==
  2 * Cardinality({i \in DOMAIN entry.keywords :
                     Lower(entry.keywords[i]) \in query_terms})
    + Cardinality(query_terms \cap SummaryTerms(entry))

\* Mutant: a summary match weighs as much as a keyword match.
Score2_EqualWeights(query_terms, entry) ==
  2 * Cardinality(query_terms \cap EntryTerms(entry))
    + 2 * Cardinality(query_terms \cap SummaryTerms(entry))

\* Twice the score of the source, which is a multiple of 0.5:
\* kw_overlap + summary_overlap with summary_overlap = 0.5 * len(..).
Score2(query_terms, entry) ==
  2 * Cardinality(query_terms \cap EntryTerms(entry))
    + Cardinality(query_terms \cap SummaryTerms(entry))

\* The loop over index['entries'].items(): (score, fpath, entry) for the
\* entries with score > 0, in the order of the mapping.
RECURSIVE Matches(_, _, _)
Matches(entries, query_terms, i) ==
  IF i > Len(entries) THEN <<>>
  ELSE LET e == entries[i]
           s == Score2(query_terms, e.val)
       IN (IF s > 0 THEN << [score2 |-> s, path |-> e.key, entry |-> e.val] >>
                    ELSE <<>>)
          \o Matches(entries, query_terms, i + 1)

\* Mutant: x goes before the elements already placed that have its score.
RECURSIVE InsertByScore_TiesFirst(_, _)
InsertByScore_TiesFirst(sorted, x) ==
  IF sorted = <<>> THEN <<x>>
  ELSE IF Head(sorted).score2 > x.score2
       THEN <<Head(sorted)>> \o InsertByScore_TiesFirst(Tail(sorted), x)
       ELSE <<x>> \o sorted

\* list.sort(key=lambda x: -x[0]) is stable: x goes after every element
\* already placed whose score is at least its own.
RECURSIVE InsertByScore(_, _)
InsertByScore(sorted, x) ==
  IF sorted = <<>> THEN <<x>>
  ELSE IF Head(sorted).score2 >= x.score2
       THEN <<Head(sorted)>> \o InsertByScore(Tail(sorted), x)
       ELSE <<x>> \o sorted

RECURSIVE SortByScore(_, _)
SortByScore(results, i) ==
  IF i = 0 THEN <<>>
  ELSE InsertByScore(SortByScore(results, i - 1), results[i])

Ranked(index, query_terms) ==
  LET results == Matches(index.entries, query_terms, 1)
  IN SortByScore(results, Len(results))

\* query_terms & set(k.lower() for k in entry.get('keywords', []))
MatchedKeywords(query_terms, entry) == query_terms \cap EntryTerms(entry)

Top(results, n) == SubSeq(results, 1, Min(n, Len(results)))

\* What cmd_search prints of the first results
ShownOf(top, query_terms) ==
  [i \in DOMAIN top |->
     [score2 |-> top[i].score2,
      path |-> top[i].path,
      summary |-> top[i].entry.summary,
      matched |-> MatchedKeywords(query_terms, top[i].entry)]]

cmd_search(query) ==
  LET index == load_index(indexFile)
  IN /\ IF ~HasEntries(index)
        THEN /\ op' = Ran("search", <<query>>, "crash")
             /\ out' = NoOutput
        ELSE \E query_terms \in {QueryTerms(query)} :
             \E results \in {Ranked(index, query_terms)} :
               /\ op' = Ran("search", <<query>>, "ok")
               /\ out' = [results |-> results,
                          shown |-> ShownOf(Top(results, DefaultTopN), query_terms)]
     /\ UNCHANGED <<disk, indexFile, missFile, indexedAs, running>>

\* The candidates cmd_search_json builds of the first results
CandidatesOf(top, query_terms) ==
  [i \in DOMAIN top |->
     [path |-> top[i].path,
      keyword_score2 |-> top[i].score2,
      summary |-> top[i].entry.summary,
      keywords |-> top[i].entry.keywords,
      matched_keywords |-> MatchedKeywords(query_terms, top[i].entry),
      related |-> top[i].entry.related]]

\* The output of cmd_search_json
JsonOutput(query, query_terms, candidates) ==
  [query |-> query,
   query_terms |-> query_terms,
   candidate_count |-> Len(candidates),
   candidates |-> candidates]

\* Mutant: the candidates are cut from the results before they are sorted.
cmd_search_json_Unsorted(query, top_n) ==
  LET index == load_index(indexFile)
  IN /\ IF ~HasEntries(index)
        THEN /\ op' = Ran("search-json", <<query, top_n>>, "crash")
             /\ out' = NoOutput
        ELSE \E query_terms \in {QueryTerms(query)} :
             \E results \in {Matches(index.entries, query_terms, 1)} :
             \E candidates \in {CandidatesOf(Top(results, top_n), query_terms)} :
               /\ op' = Ran("search-json", <<query, top_n>>, "ok")
               /\ out' = JsonOutput(query, query_terms, candidates)
     /\ UNCHANGED <<disk, indexFile, missFile, indexedAs, running>>

cmd_search_json(query, top_n) ==
  LET index == load_index(indexFile)
  IN /\ IF ~HasEntries(index)
        THEN /\ op' = Ran("search-json", <<query, top_n>>, "crash")
             /\ out' = NoOutput
        ELSE \E query_terms \in {QueryTerms(query)} :
             \E results \in {Ranked(index, query_terms)} :
             \E candidates \in {CandidatesOf(Top(results, top_n), query_terms)} :
               /\ op' = Ran("search-json", <<query, top_n>>, "ok")
               /\ out' = JsonOutput(query, query_terms, candidates)
     /\ UNCHANGED <<disk, indexFile, missFile, indexedAs, running>>

\* --- miss log -------------------------------------------------------------

\* The try/except around json.load(MISS_LOG_FILE)
load_log(file) == IF file.kind = "log" THEN file.entries ELSE <<>>

\* Mutant: the log is written with the new record only.
cmd_miss_Overwrites(query, expected_path, reason, now) ==
  LET log == load_log(missFile)
      record == [timestamp |-> now, query |-> query,
                 expected_path |-> expected_path, reason |-> reason]
  IN /\ Len(log) < MaxLog
     /\ missFile' = [kind |-> "log", version |-> 0, entries |-> <<record>>]
     /\ op' = Ran("miss", <<query, expected_path, reason>>, "ok")
     /\ out' = NoOutput
     /\ UNCHANGED <<disk, indexFile, indexedAs, running>>

cmd_miss(query, expected_path, reason, now) ==
  LET log == load_log(missFile)
      record == [timestamp |-> now, query |-> query,
                 expected_path |-> expected_path, reason |-> reason]
  IN /\ Len(log) < MaxLog
     /\ missFile' = [kind |-> "log", version |-> 0, entries |-> Append(log, record)]
     /\ op' = Ran("miss", <<query, expected_path, reason>>, "ok")
     /\ out' = NoOutput
     /\ UNCHANGED <<disk, indexFile, indexedAs, running>>

cmd_misses ==
  /\ op' = Ran("misses", <<>>, "ok")
  /\ out' = IF missFile.kind = "log"
            THEN [logged |-> TRUE, log |-> missFile.entries]
            ELSE [logged |-> FALSE, log |-> <<>>]
  /\ UNCHANGED <<disk, indexFile, missFile, indexedAs, running>>

\* --- stats ----------------------------------------------------------------

\* Mutant: stats saves the index without its stale entries.
cmd_stats_Prunes ==
  LET index == load_index(indexFile)
      raises == index.kind = "nondict"
      entries == IF index.kind = "index" THEN index.entries ELSE <<>>
      all_keywords == UNION {EntryTerms(entries[i].val) : i \in DOMAIN entries}
      stale == SelectSeq([i \in DOMAIN entries |-> entries[i].key],
                         LAMBDA p : ~disk[p].exists)
  IN /\ IF raises
        THEN /\ op' = Ran("stats", <<>>, "crash")
             /\ out' = NoOutput
        ELSE /\ op' = Ran("stats", <<>>, "ok")
             /\ out' = [total_files |-> Len(vault_files),
                        indexed |-> Len(entries),
                        unique_keywords |-> Cardinality(all_keywords),
                        stale |-> stale,
                        misses_shown |-> missFile.kind = "log",
                        misses |-> Len(load_log(missFile))]
     /\ indexFile' = IF index.kind = "index" /\ stale # <<>>
                     THEN save_index([index EXCEPT !.entries =
                            SelectSeq(@, LAMBDA e : disk[e.key].exists)])
                     ELSE indexFile
     /\ UNCHANGED <<disk, missFile, indexedAs, running>>

\* Mutant: an entry is stale when its path is not among the vault's files.
cmd_stats_StaleOutsideVault ==
  LET index == load_index(indexFile)
      raises == index.kind = "nondict"
      entries == IF index.kind = "index" THEN index.entries ELSE <<>>
      all_keywords == UNION {EntryTerms(entries[i].val) : i \in DOMAIN entries}
      stale == SelectSeq([i \in DOMAIN entries |-> entries[i].key],
                         LAMBDA p : p \notin ToSet(vault_files))
  IN /\ IF raises
        THEN /\ op' = Ran("stats", <<>>, "crash")
             /\ out' = NoOutput
        ELSE /\ op' = Ran("stats", <<>>, "ok")
             /\ out' = [total_files |-> Len(vault_files),
                        indexed |-> Len(entries),
                        unique_keywords |-> Cardinality(all_keywords),
                        stale |-> stale,
                        misses_shown |-> missFile.kind = "log",
                        misses |-> Len(load_log(missFile))]
     /\ UNCHANGED <<disk, indexFile, missFile, indexedAs, running>>

\* index.get('entries', {}) raises on a value that is not a dict
cmd_stats ==
  LET index == load_index(indexFile)
      raises == index.kind = "nondict"
      entries == IF index.kind = "index" THEN index.entries ELSE <<>>
      all_keywords == UNION {EntryTerms(entries[i].val) : i \in DOMAIN entries}
      stale == SelectSeq([i \in DOMAIN entries |-> entries[i].key],
                         LAMBDA p : ~disk[p].exists)
  IN /\ IF raises
        THEN /\ op' = Ran("stats", <<>>, "crash")
             /\ out' = NoOutput
        ELSE /\ op' = Ran("stats", <<>>, "ok")
             /\ out' = [total_files |-> Len(vault_files),
                        indexed |-> Len(entries),
                        unique_keywords |-> Cardinality(all_keywords),
                        stale |-> stale,
                        misses_shown |-> missFile.kind = "log",
                        misses |-> Len(load_log(missFile))]
     /\ UNCHANGED <<disk, indexFile, missFile, indexedAs, running>>

\* ------------------------------------------------------------------------
\* Two invocations at a time: update and miss in the steps they take
\* ------------------------------------------------------------------------

\* The invocations that can be running at once
Procs == {1, 2}

\* An invocation that has not started or has exited; value is the JSON
\* value a started one is about to dump.
Idle == [pc |-> "idle", cmd |-> "none", args |-> <<>>, value |-> Blank("absent")]

StoreOf(cmd) == IF cmd = "miss" THEN missFile ELSE indexFile

RECURSIVE SumOf(_)
SumOf(ns) == IF ns = <<>> THEN 0 ELSE Head(ns) + SumOf(Tail(ns))

\* The characters json.dump(.., indent=2) writes: a path, a text, a list of
\* strings of the given sizes whose bracket stands at indentation n, an
\* entry, a miss record.
PathSize(path) == Len(path) + 2

TextSize(text) == SumOf([i \in DOMAIN text |-> Len(text[i])]) + 2

ListSize(sizes, n) ==
  IF sizes = <<>> THEN 2
  ELSE 2 + SumOf([i \in DOMAIN sizes |-> n + 3 + sizes[i]])
         + (Len(sizes) - 1) + n + 1

\* content_hash is 16 hexadecimal digits
EntrySize(e) ==
  135 + PathSize(e.key) + PathSize(e.val.source_path) + TextSize(e.val.summary)
      + ListSize([i \in DOMAIN e.val.keywords |-> TextSize(e.val.keywords[i])], 6)
      + ListSize([i \in DOMAIN e.val.related |-> PathSize(e.val.related[i])], 6)

\* the timestamp is isoformat() with microseconds and offset, 32 characters
RecordSize(r) ==
  113 + TextSize(r.query) + PathSize(r.expected_path) + TextSize(r.reason)

\* The length of the file a store value is dumped to; a file that is absent
\* or has just been truncated has none. The version is one digit.
FileSize(file) ==
  CASE file.kind = "index" ->
         IF file.entries = <<>> THEN 35
         ELSE 38 + SumOf([i \in DOMAIN file.entries |-> EntrySize(file.entries[i]) + 1])
                 + (Len(file.entries) - 1)
    [] file.kind = "log" ->
         IF file.entries = <<>> THEN 2
         ELSE 3 + SumOf([i \in DOMAIN file.entries |-> RecordSize(file.entries[i]) + 1])
                + (Len(file.entries) - 1)
    [] OTHER -> 0

\* cmd_update up to save_index: the file is looked for, the index loaded
\* and the entry set in memory.
BeginUpdate(i, fpath, summary, keywords, related) ==
  LET args == <<fpath, summary, keywords, related>>
      index == load_index(indexFile)
      text == ReadText(disk[fpath].data)
  IN /\ running[i].pc = "idle"
     /\ IF ~disk[fpath].exists THEN UpdateNotFound(args)
        ELSE IF ~HasEntries(index) THEN UpdateRaises(args)
        ELSE /\ running' = [running EXCEPT ![i] =
                   [pc |-> "save", cmd |-> "update", args |-> args,
                    value |-> save_index(SetEntry(index, fpath, text, summary,
                                                  keywords, related))]]
             /\ UNCHANGED <<disk, indexFile, missFile, op, out, indexedAs>>

\* cmd_miss up to the open for writing: the log is loaded and the record
\* appended in memory.
BeginMiss(i, query, expected_path, reason, now) ==
  LET log == load_log(missFile)
      record == [timestamp |-> now, query |-> query,
                 expected_path |-> expected_path, reason |-> reason]
  IN /\ running[i].pc = "idle"
     /\ Len(log) < MaxLog
     /\ running' = [running EXCEPT ![i] =
           [pc |-> "save", cmd |-> "miss", args |-> <<query, expected_path, reason>>,
            value |-> [kind |-> "log", version |-> 0, entries |-> Append(log, record)]]]
     /\ UNCHANGED <<disk, indexFile, missFile, op, out, indexedAs>>

\* open(.., 'w'): the file is created or cut to length zero
OpenStore(i) ==
  /\ running[i].pc = "save"
  /\ running' = [running EXCEPT ![i].pc = "write"]
  /\ IF running[i].cmd = "miss"
     THEN /\ missFile' = Blank("garbage")
          /\ UNCHANGED indexFile
     ELSE /\ indexFile' = Blank("garbage")
          /\ UNCHANGED missFile
  /\ UNCHANGED <<disk, op, out, indexedAs>>

\* json.dump and close: the dump goes to the start of the file. What
\* another invocation has written there since the open stays beyond the
\* end of the dump, and a JSON value followed by more text does not parse.
Written(target, value) ==
  IF FileSize(target) > FileSize(value) THEN Blank("garbage") ELSE value

WriteStore(i) ==
  LET me == running[i]
      written == Written(StoreOf(me.cmd), me.value)
  IN /\ me.pc = "write"
     /\ running' = [running EXCEPT ![i] = Idle]
     /\ IF me.cmd = "miss"
        THEN /\ missFile' = written
             /\ op' = Ran("miss", me.args, "ok")
             /\ out' = NoOutput
             /\ UNCHANGED <<indexFile, indexedAs>>
        ELSE /\ indexFile' = written
             /\ op' = [Ran("update", me.args, "ok") EXCEPT
                         !.again = (op.name = "update" /\ op.status = "ok"
                                    /\ op.args = me.args)]
             /\ out' = [indexed |-> me.args[1], keyword_count |-> Len(me.args[3])]
             /\ indexedAs' = [indexedAs EXCEPT ![me.args[1]] = disk[me.args[1]]]
             /\ UNCHANGED missFile
     /\ UNCHANGED disk

\* The invocation is killed before or after its open for writing; nothing
\* of its dump has reached the file.
Interrupt(i) ==
  /\ running[i].pc \in {"save", "write"}
  /\ running' = [running EXCEPT ![i] = Idle]
  /\ op' = Ran(running[i].cmd, running[i].args, "killed")
  /\ out' = NoOutput
  /\ UNCHANGED <<disk, indexFile, missFile, indexedAs>>

\* ------------------------------------------------------------------------
\* The environment: documents are written and deleted, store files damaged
\* ------------------------------------------------------------------------

WriteDocument(p, bytes) ==
  /\ disk[p] # FileOf(bytes)
  /\ disk' = [disk EXCEPT ![p] = FileOf(bytes)]
  /\ op' = Ran("env", <<>>, "ok")
  /\ out' = NoOutput
  /\ UNCHANGED <<indexFile, missFile, indexedAs, running>>

DeleteDocument(p) ==
  /\ disk[p].exists
  /\ disk' = [disk EXCEPT ![p] = NoFile]
  /\ op' = Ran("env", <<>>, "ok")
  /\ out' = NoOutput
  /\ UNCHANGED <<indexFile, missFile, indexedAs, running>>

DamageIndexStore(kind) ==
  /\ indexFile # Blank(kind)
  /\ indexFile' = Blank(kind)
  /\ indexedAs' = [p \in Paths |-> NoFile]
  /\ op' = Ran("env_store", <<>>, "ok")
  /\ out' = NoOutput
  /\ UNCHANGED <<disk, missFile, running>>

\* An index file written elsewhere is put in place: it carries its own
\* version number and no entries yet.
InstallIndexStore(version) ==
  /\ indexFile # [EmptyIndex EXCEPT !.version = version]
  /\ indexFile' = [EmptyIndex EXCEPT !.version = version]
  /\ indexedAs' = [p \in Paths |-> NoFile]
  /\ op' = Ran("env_store", <<>>, "ok")
  /\ out' = NoOutput
  /\ UNCHANGED <<disk, missFile, running>>

DamageMissLog(kind) ==
  /\ missFile # Blank(kind)
  /\ missFile' = Blank(kind)
  /\ op' = Ran("env_log", <<>>, "ok")
  /\ out' = NoOutput
  /\ UNCHANGED <<disk, indexFile, indexedAs, running>>

\* ------------------------------------------------------------------------
\* Inputs of the commands
\* ------------------------------------------------------------------------

\* "A b", "c", "b a b" and "B"
SummaryAb == <<"A", " ", "b">>
SummaryC == <<"c">>
SummaryBab == <<"b", " ", "a", " ", "b">>
SummaryB == <<"B">>

\* ["a", "B"], ["a b"], ["A", "a"] and ["c"]
KeywordsAB == << <<"a">>, <<"B">> >>
KeywordsPhrase == << <<"a", " ", "b">> >>
KeywordsAa == << <<"A">>, <<"a">> >>
KeywordsC == << <<"c">> >>

\* (summary, keywords, related) as an annotator supplies them; related is
\* <<>> when the argument is omitted.
Annotations ==
  { <<SummaryAb, KeywordsAB, <<>> >>,
    <<SummaryC, KeywordsPhrase, << <<"memory/a.md">> >> >> }

\* "a B", "b  b", "z" and "c A"
QueryAB == <<"a", " ", "B">>
QueryBB == <<"b", " ", " ", "b">>
QueryZ == <<"z">>
QueryCA == <<"c", " ", "A">>

\* (query, expected_path, reason) of a miss call
MissArgs ==
  { <<QueryZ, "memory/a.md", <<"r">> >>,
    <<QueryAB, "memory/b.md", <<>> >> }

\* Readings of the clock
Timestamps == {"T1"}

Init ==
  /\ disk = [p \in Paths |-> NoFile]
  /\ indexFile = Blank("absent")
  /\ missFile = Blank("absent")
  /\ op = Ran("start", <<>>, "ok")
  /\ out = NoOutput
  /\ indexedAs = [p \in Paths |-> NoFile]
  /\ running = [i \in Procs |-> Idle]

\* ------------------------------------------------------------------------
\* Spec: every command and the environment, over two vault documents
\* ------------------------------------------------------------------------

SpecPaths == ToSet(VaultPaths)

SpecBytes(p) == IF p = VaultPaths[1] THEN {BytesXLF, BytesYLF} ELSE {BytesXLF}

Environment ==
  \/ \E p \in SpecPaths : \E b \in SpecBytes(p) : WriteDocument(p, b)
  \/ \E p \in SpecPaths : DeleteDocument(p)
  \/ \E k \in {"absent"} \cup MalformedKinds : DamageIndexStore(k)
  \/ \E k \in {"absent", "garbage"} : DamageMissLog(k)

Next ==
  \/ Environment
  \/ cmd_scan
  \/ \E p \in SpecPaths : cmd_file(p)
  \/ \E p \in SpecPaths : \E a \in Annotations : cmd_update(p, a[1], a[2], a[3])
  \/ \E q \in {QueryAB, QueryZ} : cmd_search(q)
  \/ \E q \in {QueryAB, QueryZ} : cmd_search_json(q, DefaultTopN)
  \/ \E m \in MissArgs : \E t \in Timestamps : cmd_miss(m[1], m[2], m[3], t)
  \/ cmd_misses
  \/ cmd_stats

Spec == Init /\ [][Next]_vars

\* ------------------------------------------------------------------------
\* SpecIndexing: scan and update against documents that change on disk
\* ------------------------------------------------------------------------

IndexingBytes(p) == IF p = VaultPaths[1] THEN Contents ELSE {BytesXLF}

NextIndexing ==
  \/ \E p \in Paths : \E b \in IndexingBytes(p) : WriteDocument(p, b)
  \/ \E p \in Paths : DeleteDocument(p)
  \/ \E k \in {"absent"} \cup MalformedKinds : DamageIndexStore(k)
  \/ cmd_scan
  \/ \E p \in Paths : cmd_file(p)
  \/ \E p \in Paths : \E a \in Annotations : cmd_update(p, a[1], a[2], a[3])

SpecIndexing == Init /\ [][NextIndexing]_vars

\* ------------------------------------------------------------------------
\* SpecStats: update and stats over three paths and stores of two versions
\* ------------------------------------------------------------------------

\* The version this program writes and one it does not
StoreVersions == {EmptyIndex.version, EmptyIndex.version + 1}

NextStats ==
  \/ \E p \in Paths : WriteDocument(p, BytesXLF)
  \/ \E p \in Paths : DeleteDocument(p)
  \/ \E k \in {"absent"} \cup MalformedKinds : DamageIndexStore(k)
  \/ \E v \in StoreVersions : InstallIndexStore(v)
  \/ \E p \in Paths : \E a \in Annotations : cmd_update(p, a[1], a[2], a[3])
  \/ cmd_stats

SpecStats == Init /\ [][NextStats]_vars

\* ------------------------------------------------------------------------
\* SpecSteps: two invocations of update and miss, step by step
\* ------------------------------------------------------------------------

\* What each invocation is asked to index and to log
StepUpdates(i) ==
  IF i = 1 THEN {<<VaultPaths[1]>> \o a : a \in Annotations}
  ELSE {<<VaultPaths[2], SummaryAb, KeywordsAB, <<>> >>,
        <<OutsidePath, SummaryAb, KeywordsAB, <<>> >>}

StepMisses(i) ==
  IF i = 1 THEN {<<QueryZ, "memory/a.md", <<"r">> >>}
  ELSE {<<QueryAB, "memory/b.md", <<>> >>}

\* The two vault documents exist and stay as they are
InitSteps ==
  /\ disk = [p \in Paths |-> IF p = OutsidePath THEN NoFile ELSE FileOf(BytesXLF)]
  /\ indexFile = Blank("absent")
  /\ missFile = Blank("absent")
  /\ op = Ran("start", <<>>, "ok")
  /\ out = NoOutput
  /\ indexedAs = [p \in Paths |-> NoFile]
  /\ running = [i \in Procs |-> Idle]

NextSteps ==
  \/ \E i \in Procs : \E u \in StepUpdates(i) : BeginUpdate(i, u[1], u[2], u[3], u[4])
  \/ \E i \in Procs : \E m \in StepMisses(i) : \E t \in Timestamps :
       BeginMiss(i, m[1], m[2], m[3], t)
  \/ \E i \in Procs : OpenStore(i)
  \/ \E i \in Procs : WriteStore(i)
  \/ \E i \in Procs : Interrupt(i)

SpecSteps == InitSteps /\ [][NextSteps]_vars

\* ------------------------------------------------------------------------
\* SpecSearch: the two search commands over the indexes update can build
\* ------------------------------------------------------------------------

SearchAnnotations ==
  Annotations \cup
  { <<SummaryBab, KeywordsAa, <<>> >>,
    <<SummaryB, KeywordsC, <<>> >> }

SearchQueries == {QueryAB, QueryBB, QueryZ, QueryCA}

TopNs == {1, DefaultTopN}

\* The orders in which some of the paths can have been indexed
PathOrders ==
  {ps \in UNION {[1..n -> Paths] : n \in 0..Cardinality(Paths)} :
     \A i, j \in DOMAIN ps : i # j => ps[i] # ps[j]}

\* The store after update has run on ps[1], .., ps[n] with annotations as
RECURSIVE StoreAfter(_, _, _)
StoreAfter(ps, as, n) ==
  IF n = 0 THEN Blank("absent")
  ELSE save_index(SetEntry(load_index(StoreAfter(ps, as, n - 1)), ps[n],
                           ReadText(BytesXLF), as[n][1], as[n][2], as[n][3]))

SearchStores ==
  UNION {{StoreAfter(ps, as, Len(ps)) : as \in [DOMAIN ps -> SearchAnnotations]} :
           ps \in PathOrders}

InitSearch ==
  /\ disk = [p \in Paths |-> FileOf(BytesXLF)]
  /\ indexFile \in SearchStores
  /\ missFile = Blank("absent")
  /\ op = Ran("start", <<>>, "ok")
  /\ out = NoOutput
  /\ indexedAs = [p \in Paths |->
                    IF HasKey(indexFile.entries, p) THEN FileOf(BytesXLF) ELSE NoFile]
  /\ running = [i \in Procs |-> Idle]

NextSearch ==
  \/ \E q \in SearchQueries : cmd_search(q)
  \/ \E q \in SearchQueries : \E n \in TopNs : cmd_search_json(q, n)

SpecSearch == InitSearch /\ [][NextSearch]_vars

\* ------------------------------------------------------------------------
\* SpecTop: the search commands over the stores of SpecSearch and over
\* stores of one entry more than the commands show
\* ------------------------------------------------------------------------

TopPaths ==
  <<"memory/n01.md", "memory/n02.md", "memory/n03.md", "memory/n04.md",
    "memory/n05.md", "memory/n06.md", "memory/n07.md", "memory/n08.md",
    "memory/n09.md", "memory/n10.md", "memory/n11.md">>

\* Annotations of the entries of a large store: the last three vary.
TopAnnotations ==
  {as \in [DOMAIN TopPaths -> SearchAnnotations] :
     \A i \in DOMAIN TopPaths :
       i <= Len(TopPaths) - 3 => as[i] = <<SummaryAb, KeywordsAB, <<>> >>}

TopStores == {StoreAfter(TopPaths, as, Len(TopPaths)) : as \in TopAnnotations}

InitTop ==
  /\ disk = [p \in Paths \cup ToSet(TopPaths) |-> FileOf(BytesXLF)]
  /\ indexFile \in SearchStores \cup TopStores
  /\ missFile = Blank("absent")
  /\ op = Ran("start", <<>>, "ok")
  /\ out = NoOutput
  /\ indexedAs = [p \in Paths \cup ToSet(TopPaths) |->
                    IF HasKey(indexFile.entries, p) THEN FileOf(BytesXLF) ELSE NoFile]
  /\ running = [i \in Procs |-> Idle]

SpecTop == InitTop /\ [][NextSearch]_vars

\* ------------------------------------------------------------------------
\* Properties
\* ------------------------------------------------------------------------

ScanRan == op.name = "scan" /\ op.status = "ok"

UpdateRan == op.name = "update" /\ op.status = "ok"

Listed == ToSet(out.needs_indexing)

\* The document has the bytes it had when update last indexed it.
SameAsIndexed(D) == indexedAs[D].exists /\ disk[D] = indexedAs[D]

\* The document exists with other bytes than when update last indexed it.
ChangedSinceIndexed(D) ==
  indexedAs[D].exists /\ disk[D].exists /\ disk[D] # indexedAs[D]

\* The hash of the document as read differs from that of the bytes it had
\* when update last indexed it.
RehashedSinceIndexed(D) ==
  /\ indexedAs[D].exists
  /\ disk[D].exists
  /\ content_hash(ReadText(disk[D].data))
       # content_hash(ReadText(indexedAs[D].data))

\* The hash the scan printed for a listed document
PrintedHash(D) ==
  out.hashes[CHOOSE i \in DOMAIN out.needs_indexing : out.needs_indexing[i] = D]

\* C1: a scan that follows a successful update of document D, D's content
\* being what it was at the update, does not list D as needing indexing.
C1_ScanSkipsIndexed ==
  ScanRan => \A D \in ToSet(VaultPaths) : SameAsIndexed(D) => D \notin Listed

\* C1 witness: a scan ran with the first document indexed and unchanged, and
\* listed another document.
C1_Witness ==
  /\ ScanRan
  /\ SameAsIndexed(VaultPaths[1])
  /\ out.needs_indexing = <<VaultPaths[2]>>

\* C2 as claimed: a scan lists every indexed document whose content changed
\* since the update, and the hash it computes differs from the stored one.
C2_ScanListsChanged ==
  ScanRan =>
    \A D \in ToSet(VaultPaths) :
      ChangedSinceIndexed(D) =>
        /\ D \in Listed
        /\ LiveHash(D) # Get(indexFile.entries, D).content_hash

\* C2 amended: a scan lists every indexed document whose text, as read, now
\* hashes to another digest than at the update, and prints for it a hash
\* that differs from the stored one.
C2_ScanListsRehashed ==
  ScanRan =>
    \A D \in ToSet(VaultPaths) :
      RehashedSinceIndexed(D) =>
        /\ D \in Listed
        /\ PrintedHash(D) # Get(indexFile.entries, D).content_hash

\* C2 witness: a scan ran on an indexed document whose hash changed.
C2_Witness ==
  /\ ScanRan
  /\ RehashedSinceIndexed(VaultPaths[1])
  /\ VaultPaths[1] \in Listed

\* C3: after a successful update(P, summary, keywords, related) the store
\* holds for P exactly the entry made of P, the hash of P's content on disk,
\* and the arguments, related being empty when omitted.
C3_UpdateWritesWholeEntry ==
  UpdateRan =>
    LET P == op.args[1] IN
      /\ indexFile.kind = "index"
      /\ Cardinality({i \in DOMAIN indexFile.entries : indexFile.entries[i].key = P}) = 1
      /\ Get(indexFile.entries, P) =
           [source_path |-> P,
            content_hash |-> content_hash(ReadText(disk[P].data)),
            summary |-> op.args[2],
            keywords |-> op.args[3],
            related |-> IF op.args[4] = <<>> THEN <<>> ELSE op.args[4][1]]

\* C3 witness: an update without related ran on a document whose bytes
\* differ from the last it had, in an index of three entries.
C3_Witness ==
  /\ UpdateRan
  /\ op.args[4] = <<>>
  /\ disk[op.args[1]].data = BytesXCRLF
  /\ Len(indexFile.entries) = 3

\* C4: update of a path that is no existing file reports not-found and
\* leaves the index store as it was.
C4_UpdateNotFoundKeepsStore ==
  [][(op'.name = "update" /\ ~disk[op'.args[1]].exists)
       => (op'.status = "notfound" /\ indexFile' = indexFile)]_vars

\* C4 witness: update reported not-found for a path that has an entry, its
\* document being gone, and the entry is still in the store.
C4_Witness ==
  /\ op.name = "update"
  /\ op.status = "notfound"
  /\ indexFile.kind = "index"
  /\ HasKey(indexFile.entries, op.args[1])

\* C5 as claimed: a store that is missing or malformed loads as the empty
\* index, and scan, update, search, search-json and stats do not raise on it.
C5_MalformedStoreLoadsEmpty ==
  indexFile.kind \in {"absent"} \cup MalformedKinds =>
    /\ load_index(indexFile) = EmptyIndex
    /\ (op.name \in {"scan", "update", "search", "search-json", "stats"}
          => op.status # "crash")

ReadOnlyCommands ==
  {"scan", "file", "search", "search-json", "miss", "misses", "stats"}

\* C6: scan, file, search, search-json, miss, misses and stats leave the
\* index store as it was, absent or unparsable included.
C6_OnlyUpdateWritesIndex ==
  [][op'.name \in ReadOnlyCommands => indexFile' = indexFile]_vars

\* C6 witness: a scan listed documents and no store file exists.
C6_Witness ==
  /\ ScanRan
  /\ out.needs_indexing # <<>>
  /\ indexFile.kind = "absent"

IsPrefix(s, t) == Len(s) <= Len(t) /\ SubSeq(t, 1, Len(s)) = s

\* C7: no command removes, changes or reorders a record of the miss log;
\* miss adds one record at the end, made of its arguments, and makes a log
\* of one record when there was no log file; no other command writes it.
C7_MissLogAppendOnly ==
  [][op'.name # "env_log" =>
       /\ IsPrefix(load_log(missFile), load_log(missFile'))
       /\ (op'.name # "miss" => missFile' = missFile)
       /\ (op'.name = "miss" =>
             /\ missFile'.kind = "log"
             /\ Len(missFile'.entries) = Len(load_log(missFile)) + 1
             /\ (missFile.kind = "absent" => Len(missFile'.entries) = 1)
             /\ LET r == missFile'.entries[Len(missFile'.entries)]
                IN /\ r.query = op'.args[1]
                   /\ r.expected_path = op'.args[2]
                   /\ r.reason = op'.args[3]
                   /\ r.timestamp \in Timestamps)]_vars

\* C7 witness: miss ran on a log that had a record of another query.
C7_Witness ==
  /\ op.name = "miss"
  /\ missFile.kind = "log"
  /\ Len(missFile.entries) = 2
  /\ missFile.entries[1].query # missFile.entries[2].query

\* The paths that have an entry in a store file
IndexedPaths(file) == IF file.kind = "index" THEN KeysOf(file.entries) ELSE {}

\* C8: no command and no change or deletion of a document removes an entry
\* from the persisted index.
C8_EntriesNeverDropped ==
  [][op'.name # "env_store" =>
       IndexedPaths(indexFile) \subseteq IndexedPaths(indexFile')]_vars

\* C8 witness: stats reported a stale entry, which is still in the index
\* next to an entry whose stored hash is out of date.
C8_Witness ==
  /\ op.name = "stats"
  /\ op.status = "ok"
  /\ out.stale = <<VaultPaths[2]>>
  /\ IndexedPaths(indexFile) = ToSet(VaultPaths)
  /\ disk[VaultPaths[1]].exists
  /\ LiveHash(VaultPaths[1]) # Get(indexFile.entries, VaultPaths[1]).content_hash

\* The whitespace-separated words of s
WordsOf(s) ==
  {SubSeq(s, ij[1], ij[2]) :
     ij \in {x \in (DOMAIN s) \X (DOMAIN s) :
               /\ x[1] <= x[2]
               /\ \A k \in x[1]..x[2] : ~IsSpace(s[k])
               /\ (x[1] = 1 \/ IsSpace(s[x[1] - 1]))
               /\ (x[2] = Len(s) \/ IsSpace(s[x[2] + 1]))}}

\* Twice the score C9 states: the distinct lowercased query terms that are
\* lowercased keywords count 1 each, those that are words of the lowercased
\* summary 0.5 each.
ClaimedScore2(query, entry) ==
  LET terms == WordsOf(Lower(query))
  IN 2 * Cardinality({t \in terms :
                        \E k \in DOMAIN entry.keywords : Lower(entry.keywords[k]) = t})
       + Cardinality({t \in terms : t \in WordsOf(Lower(entry.summary))})

\* The entries of the persisted index with a positive claimed score
Scoring(query) ==
  {i \in DOMAIN indexFile.entries : ClaimedScore2(query, indexFile.entries[i].val) > 0}

\* C9: search and search-json give each result the score C9 states; search
\* returns the entries with a positive score and no other, search-json the
\* same when top_n does not cut them; a query that matches nothing gives an
\* empty result, not an error.
C9_SearchScores ==
  /\ (op.name \in {"search", "search-json"} /\ indexFile.kind \in {"absent", "index"})
       => op.status = "ok"
  /\ (op.name = "search" /\ op.status = "ok") =>
       LET q == op.args[1]
           es == indexFile.entries
       IN /\ \A i \in DOMAIN es :
               i \in Scoring(q) <=>
                 \E j \in DOMAIN out.results : out.results[j].path = es[i].key
          /\ Len(out.results) = Cardinality(Scoring(q))
          /\ \A j \in DOMAIN out.results :
               /\ HasKey(es, out.results[j].path)
               /\ out.results[j].score2 = ClaimedScore2(q, Get(es, out.results[j].path))
               /\ out.results[j].entry = Get(es, out.results[j].path)
          /\ \A j \in DOMAIN out.shown : out.shown[j].score2 = out.results[j].score2
  /\ (op.name = "search-json" /\ op.status = "ok") =>
       LET q == op.args[1]
           es == indexFile.entries
           cs == out.candidates
       IN /\ \A j \in DOMAIN cs :
               /\ HasKey(es, cs[j].path)
               /\ cs[j].keyword_score2 = ClaimedScore2(q, Get(es, cs[j].path))
               /\ cs[j].keyword_score2 > 0
          /\ op.args[2] >= Len(es) =>
               /\ Len(cs) = Cardinality(Scoring(q))
               /\ \A i \in Scoring(q) : \E j \in DOMAIN cs : cs[j].path = es[i].key

\* C9 witness: of three entries search returned two, the first with score
\* 1.5 from one keyword and one summary word, and left out the third.
C9_Witness ==
  /\ op.name = "search"
  /\ op.status = "ok"
  /\ Len(indexFile.entries) = 3
  /\ Len(out.results) = 2
  /\ out.results[1].score2 = 3

\* C9 second case: a query that matches no entry of a non-empty index.
C9_NoMatch ==
  /\ op.name = "search-json"
  /\ op.status = "ok"
  /\ Len(indexFile.entries) = 3
  /\ out.candidate_count = 0

\* C10: a successful update that repeats the previous command, itself a
\* successful update with the same arguments, leaves the persisted index as
\* the first left it.
C10_UpdateIdempotent ==
  [][(op'.name = "update" /\ op'.status = "ok" /\ op'.again)
       => indexFile' = indexFile]_vars

\* C10 witness: the same update ran twice in a row on an index of two
\* entries.
C10_Witness ==
  /\ UpdateRan
  /\ op.again
  /\ Len(indexFile.entries) = 2

SearchRan == op.name = "search" /\ op.status = "ok"

\* The score search gave the entry stored under path, 0 when it left it out
ScoreGiven(path) ==
  IF \E j \in DOMAIN out.results : out.results[j].path = path
  THEN out.results[CHOOSE j \in DOMAIN out.results : out.results[j].path = path].score2
  ELSE 0

Reversed(s) == [i \in DOMAIN s |-> s[Len(s) + 1 - i]]

\* " ".join(words)
RECURSIVE Joined(_)
Joined(words) ==
  IF words = <<>> THEN <<>>
  ELSE IF Len(words) = 1 THEN words[1]
  ELSE words[1] \o <<" ">> \o Joined(Tail(words))

\* The same words in reverse order, and the text twice
Rearranged(text) == {Joined(Reversed(Split(text))), text \o <<" ">> \o text}

ExtraWords == { <<"a">>, <<"B">>, <<"c">>, <<"z">> }

\* C12: the score of an entry does not change when the query terms, the
\* keywords or the summary words are reordered or repeated; it does not go
\* down when a term is added to the query or a keyword to the entry, and it
\* goes up by at least 1 when the added query term is a new one that is a
\* keyword of the entry.
C12_ScoreMonotoneOrderFree ==
  SearchRan =>
    \A i \in DOMAIN indexFile.entries :
      LET e == indexFile.entries[i].val
          q == op.args[1]
          given == ScoreGiven(indexFile.entries[i].key)
      IN /\ \A q2 \in Rearranged(q) : Score2(QueryTerms(q2), e) = given
         /\ \A s2 \in Rearranged(e.summary) :
              Score2(QueryTerms(q), [e EXCEPT !.summary = s2]) = given
         /\ Score2(QueryTerms(q), [e EXCEPT !.keywords = Reversed(@)]) = given
         /\ Score2(QueryTerms(q), [e EXCEPT !.keywords = @ \o @]) = given
         /\ \A w \in ExtraWords :
              /\ Score2(QueryTerms(q \o <<" ">> \o w), e) >= given
              /\ Score2(QueryTerms(q), [e EXCEPT !.keywords = Append(@, w)]) >= given
              /\ (Lower(w) \in EntryTerms(e) /\ Lower(w) \notin QueryTerms(q))
                   => Score2(QueryTerms(q \o <<" ">> \o w), e) >= given + 2

\* C12 witness: search gave 1.5 to an entry whose keywords "A" and "a" both
\* match the one query term "a", which is also a word of its summary.
C12_Witness ==
  /\ SearchRan
  /\ op.args[1] = QueryCA
  /\ \E j \in DOMAIN out.results :
       /\ out.results[j].entry.keywords = KeywordsAa
       /\ out.results[j].entry.summary = SummaryBab
       /\ out.results[j].score2 = 3

\* The paths and doubled scores of the results of either search command
ResultRows ==
  IF op.name = "search"
  THEN [j \in DOMAIN out.results |->
          [path |-> out.results[j].path, score2 |-> out.results[j].score2]]
  ELSE [j \in DOMAIN out.candidates |->
          [path |-> out.candidates[j].path, score2 |-> out.candidates[j].keyword_score2]]

\* C16: in the results of search and search-json no result is followed by
\* one of higher score, and results of equal score come in the order in
\* which their entries are stored in the index, so the sequence is fixed by
\* the persisted index and the query.
C16_ResultsOrdered ==
  (op.name \in {"search", "search-json"} /\ op.status = "ok") =>
    \A j, k \in DOMAIN ResultRows :
      j < k =>
        /\ ResultRows[j].score2 >= ResultRows[k].score2
        /\ ResultRows[j].score2 = ResultRows[k].score2 =>
             PosOf(indexFile.entries, ResultRows[j].path)
               < PosOf(indexFile.entries, ResultRows[k].path)

\* C16 witness: search put the entry stored last first, ahead of two
\* entries of equal lower score.
C16_Witness ==
  /\ SearchRan
  /\ Len(out.results) = 3
  /\ PosOf(indexFile.entries, out.results[1].path) = 3
  /\ out.results[1].score2 > out.results[2].score2
  /\ out.results[2].score2 = out.results[3].score2

\* What search shows of a result and what search-json returns of a
\* candidate: path, doubled score and matched keywords
ShownRows(o) ==
  [j \in DOMAIN o.shown |->
     [path |-> o.shown[j].path, score2 |-> o.shown[j].score2,
      matched |-> o.shown[j].matched]]

CandidateRows(o) ==
  [j \in DOMAIN o.candidates |->
     [path |-> o.candidates[j].path, score2 |-> o.candidates[j].keyword_score2,
      matched |-> o.candidates[j].matched_keywords]]

\* C17: search-json returns min(N, number of entries of positive score)
\* candidates and reports that number as candidate_count; run with the
\* default N right after search with the same query, it returns the rows
\* search showed, in the same order.
C17_SearchModesAgree ==
  [][/\ (op'.name = "search-json" /\ op'.status = "ok") =>
          /\ out'.candidate_count = Len(out'.candidates)
          /\ Len(out'.candidates) = Min(op'.args[2], Cardinality(Scoring(op'.args[1])))
     /\ (/\ SearchRan
         /\ op'.name = "search-json"
         /\ op'.status = "ok"
         /\ op'.args = <<op.args[1], DefaultTopN>>)
          => /\ CandidateRows(out') = ShownRows(out)
             /\ Len(out.shown) = Min(DefaultTopN, Len(out.results))]_vars

\* C17 witness: search-json with the default N returned 10 candidates of an
\* index of 11 entries that all match, the last ones with other scores.
C17_Witness ==
  /\ op.name = "search-json"
  /\ op.status = "ok"
  /\ op.args[2] = DefaultTopN
  /\ Len(indexFile.entries) = DefaultTopN + 1
  /\ out.candidate_count = DefaultTopN
  /\ Cardinality(Scoring(op.args[1])) = DefaultTopN + 1
  /\ out.candidates[1].keyword_score2 > out.candidates[DefaultTopN].keyword_score2

\* The entries of the persisted index, none when the store holds no index
PersistedEntries == IF indexFile.kind = "index" THEN indexFile.entries ELSE <<>>

\* The document has no entry, or an entry whose stored hash is not the hash
\* of its content as read now.
NoEntryOrStale(D) ==
  \/ ~HasKey(PersistedEntries, D)
  \/ Get(PersistedEntries, D).content_hash # LiveHash(D)

\* The place of a vault path in lexicographic order
PathRank(p) == CHOOSE i \in DOMAIN VaultPaths : VaultPaths[i] = p

\* C15: on a store that holds an index or loads as the empty one, scan
\* lists a document of the vault if and only if it has no entry or its
\* stored hash differs from the hash of its content; it lists nothing else
\* and lists in increasing path order, so each document once.
C15_ScanListsExactlyStale ==
  (op.name = "scan" /\ indexFile.kind \in {"absent", "garbage", "index"}) =>
    /\ op.status = "ok"
    /\ \A D \in ToSet(VaultPaths) :
         D \in Listed <=> (disk[D].exists /\ NoEntryOrStale(D))
    /\ Listed \subseteq ToSet(VaultPaths)
    /\ \A j, k \in DOMAIN out.needs_indexing :
         j < k => PathRank(out.needs_indexing[j]) < PathRank(out.needs_indexing[k])

\* C15 witness: scan listed the first document for its stale hash, then the
\* second for having no entry, and not the file outside the vault, which
\* has no entry either.
C15_Witness ==
  /\ ScanRan
  /\ out.needs_indexing = VaultPaths
  /\ HasKey(PersistedEntries, VaultPaths[1])
  /\ ~HasKey(PersistedEntries, VaultPaths[2])
  /\ disk[OutsidePath].exists
  /\ ~HasKey(PersistedEntries, OutsidePath)

\* C19: in the persisted index every entry's source_path is the key it is
\* stored under, and no two entries have the same source_path.
C19_SourcePathIsKey ==
  \A i, j \in DOMAIN PersistedEntries :
    /\ PersistedEntries[i].val.source_path = PersistedEntries[i].key
    /\ i # j => PersistedEntries[i].val.source_path # PersistedEntries[j].val.source_path

\* C19 witness: an index of three entries, the first of them written twice.
C19_Witness ==
  /\ UpdateRan
  /\ Len(PersistedEntries) = 3
  /\ op.args[1] = PersistedEntries[1].key

\* The store holds an index or loads as the empty one
Loadable(file) == file.kind \in {"absent", "garbage", "index"}

\* The paths of the index entries that name no file on disk
MissingDocuments == {p \in IndexedPaths(indexFile) : ~disk[p].exists}

\* C13: on a loadable store stats succeeds and reports as stale exactly the
\* entries whose path names no existing file at the call, each once, and
\* leaves the index and the documents as they were.
C13_StatsReportsStale ==
  [][(op'.name = "stats" /\ Loadable(indexFile)) =>
       /\ op'.status = "ok"
       /\ ToSet(out'.stale) = MissingDocuments
       /\ Len(out'.stale) = Cardinality(MissingDocuments)
       /\ indexFile' = indexFile
       /\ disk' = disk]_vars

\* C13 witness: stats on an index of three entries of which one document,
\* a file of the vault, is gone: one stale entry, and the file outside the
\* vault is not among the stale.
C13_Witness ==
  /\ op.name = "stats"
  /\ op.status = "ok"
  /\ Len(PersistedEntries) = 3
  /\ out.indexed = 3
  /\ out.stale = <<VaultPaths[1]>>
  /\ disk[OutsidePath].exists

\* C18: a successful update of P on a loadable store leaves the version of
\* the index and the entry of every other path, present or not, as loaded
\* before the call.
C18_UpdateChangesOnlyItsEntry ==
  [][(op'.name = "update" /\ op'.status = "ok" /\ Loadable(indexFile)) =>
       LET before == load_index(indexFile)
       IN /\ indexFile'.kind = "index"
          /\ indexFile'.version = before.version
          /\ \A q \in Paths \ {op'.args[1]} :
               /\ HasKey(indexFile'.entries, q) <=> HasKey(before.entries, q)
               /\ HasKey(before.entries, q) =>
                    Get(indexFile'.entries, q) = Get(before.entries, q)]_vars

\* C18 witness: update has rewritten the second of three entries of an
\* index that carries another version number than this program writes.
C18_Witness ==
  /\ UpdateRan
  /\ op.status = "ok"
  /\ Len(PersistedEntries) = 3
  /\ op.args[1] = PersistedEntries[2].key
  /\ indexFile.version # EmptyIndex.version
  /\ PersistedEntries[1].val.summary # PersistedEntries[2].val.summary

\* C11: no store is left cut short or emptied by an invocation that has
\* not completed its write, be it still running or killed.
C11_WriteCompleteOrNotBegun ==
  /\ \A i \in Procs :
       running[i].pc = "write" => StoreOf(running[i].cmd).kind # "garbage"
  /\ op.status = "killed" => StoreOf(op.name).kind # "garbage"

\* C14: when an invocation completes its save and no other is running, the
\* store holds exactly what that invocation dumped.
C14_LastWriterWins ==
  [][\A i \in Procs :
       (/\ running[i].pc = "write"
        /\ op'.name = running[i].cmd
        /\ op'.status = "ok"
        /\ \A j \in Procs : running'[j].pc = "idle")
       => (IF running[i].cmd = "miss" THEN missFile' ELSE indexFile')
            = running[i].value]_vars

====
